---- MODULE Spec2Model ----
(***************************************************************************)
(* A model of pymdht's core/identifier.py: the Id value class (160-bit     *)
(* DHT identifiers), its three construction paths, the lazily cached hex   *)
(* and int forms, XOR distance, log distance, closeness ordering and the   *)
(* generation of an identifier at a given log distance.                    *)
(*                                                                         *)
(* Python 2 values are modelled as follows.                                *)
(*   str   a sequence of character codes 0..255 (a str is a byte string)   *)
(*   int   an arbitrary-precision integer [neg, mag]: a sign and the       *)
(*         base-16 digits of the magnitude, most significant first, no     *)
(*         leading zero (mag = <<>> is 0)                                  *)
(*   None  a slot [set |-> FALSE, v |-> ...]; a slot that holds a value    *)
(*         is [set |-> TRUE, v |-> value]                                  *)
(*   a raised exception is the field exc of a call's outcome               *)
(***************************************************************************)
EXTENDS Integers, Sequences, FiniteSets

BITS_PER_BYTE == 8
ID_SIZE_BYTES == 20
ID_SIZE_BITS == ID_SIZE_BYTES * BITS_PER_BYTE

\* ------------------------------------------------------------ bounds
\* seeds 0..MaxSeed of the identifier pool the inputs are drawn from
MaxSeed == 1
\* integers 0..MaxSmallInt (and -MaxNegInt..-1) given to the constructor
MaxSmallInt == 40
MaxNegInt == 2
\* hex digits past the 40th of the integers given to the constructor
MaxExtraDigits == 2
\* accessor calls made on one object
MaxCalls == 3
\* length of the list given to order_closest
MaxListLen == 3
\* targets ID_SIZE_BITS..ID_SIZE_BITS+MaxOver-1 and -MaxUnder..-1 given to generate_close_id
MaxOver == 2
MaxUnder == 3

\* ------------------------------------------------------------ generic helpers
Max(S) == CHOOSE x \in S : \A y \in S : x >= y

RECURSIVE Pow(_, _)
Pow(b, e) == IF e = 0 THEN 1 ELSE b * Pow(b, e - 1)

Repeat(x, n) == [i \in 1..n |-> x]

\* s[a..b] with 1-based inclusive bounds, <<>> when a > b
Slice(s, a, b) == IF a > b THEN <<>> ELSE SubSeq(s, a, b)

\* del s[i] on a list: the list without its (1-based) i-th element
DelAt(s, i) == Slice(s, 1, i - 1) \o Slice(s, i + 1, Len(s))

\* the ^ operator on two non-negative machine-size integers
RECURSIVE BitXor(_, _)
BitXor(a, b) ==
  IF a = 0 THEN b
  ELSE IF b = 0 THEN a
  ELSE (((a % 2) + (b % 2)) % 2) + (2 * BitXor(a \div 2, b \div 2))

\* the & operator on two non-negative machine-size integers
RECURSIVE BitAnd(_, _)
BitAnd(a, b) ==
  IF a = 0 \/ b = 0 THEN 0
  ELSE ((a % 2) * (b % 2)) + (2 * BitAnd(a \div 2, b \div 2))

\* ------------------------------------------------------------ Python values
NoStr == [set |-> FALSE, v |-> <<>>]

SomeStr(s) == [set |-> TRUE, v |-> s]

BigZero == [neg |-> FALSE, mag |-> <<>>]

NoInt == [set |-> FALSE, v |-> BigZero]

SomeInt(n) == [set |-> TRUE, v |-> n]

\* truth value of a str-or-None slot: None and '' are false
TruthyStr(slot) == slot.set /\ slot.v # <<>>

\* truth value of an int-or-None slot: None and 0 are false
TruthyInt(slot) == slot.set /\ slot.v.mag # <<>>

\* digits without their leading zeros
RECURSIVE FirstNonZero(_, _)
FirstNonZero(d, i) ==
  IF i > Len(d) \/ d[i] # 0 THEN i ELSE FirstNonZero(d, i + 1)

StripZeros(d) == Slice(d, FirstNonZero(d, 1), Len(d))

\* a small natural number as a Python int
RECURSIVE NatDigits(_)
NatDigits(n) == IF n = 0 THEN <<>> ELSE Append(NatDigits(n \div 16), n % 16)

BigOfNat(n) == [neg |-> FALSE, mag |-> NatDigits(n)]

BigNeg(n) == [neg |-> TRUE, mag |-> NatDigits(n)]

\* d * 16^p as a Python int, 1 <= d <= 15
BigShifted(d, p) == [neg |-> FALSE, mag |-> <<d>> \o Repeat(0, p)]

\* 2^n as a Python int
BigPow2(n) == BigShifted(Pow(2, n % 4), n \div 4)

\* x < y on non-negative Python ints
BigLess(x, y) ==
  \/ Len(x.mag) < Len(y.mag)
  \/ /\ Len(x.mag) = Len(y.mag)
     /\ \E i \in 1..Len(x.mag) :
          /\ x.mag[i] < y.mag[i]
          /\ \A j \in 1..(i - 1) : x.mag[j] = y.mag[j]

BigLeq(x, y) == x = y \/ BigLess(x, y)

\* x ^ y on non-negative Python ints
BigXor(x, y) ==
  LET n == Max({Len(x.mag), Len(y.mag)})
      px == Repeat(0, n - Len(x.mag)) \o x.mag
      py == Repeat(0, n - Len(y.mag)) \o y.mag
  IN [neg |-> FALSE, mag |-> StripZeros([i \in 1..n |-> BitXor(px[i], py[i])])]

\* ------------------------------------------------------------ characters
Ord0 == 48
OrdUpperA == 65
OrdLowerA == 97
OrdMinus == 45

\* one digit of the 'x' conversion of the % operator (lower case)
LowerHexChar(d) == IF d < 10 THEN Ord0 + d ELSE OrdLowerA + d - 10

\* one digit of base64.b16encode (upper case)
UpperHexChar(d) == IF d < 10 THEN Ord0 + d ELSE OrdUpperA + d - 10

\* str.upper() on one character
UpperChar(c) == IF c \in OrdLowerA..(OrdLowerA + 25) THEN c - 32 ELSE c

\* a character of the base-16 alphabet [0-9A-F]
IsB16Char(c) == c \in Ord0..(Ord0 + 9) \/ c \in OrdUpperA..(OrdUpperA + 5)

B16Val(c) == IF c < OrdUpperA THEN c - Ord0 ELSE c - OrdUpperA + 10

\* a digit int(s, 16) accepts: either case
IsHexChar(c) == IsB16Char(c) \/ c \in OrdLowerA..(OrdLowerA + 5)

HexVal(c) == IF c >= OrdLowerA THEN c - OrdLowerA + 10 ELSE B16Val(c)

\* ------------------------------------------------------------ conversions
\* '%040x' % n: sign, zero padding to a width of 40, lower-case digits
Format040x(n) ==
  LET digits == IF n.mag = <<>> THEN <<0>> ELSE n.mag
      sign == IF n.neg THEN <<OrdMinus>> ELSE <<>>
      width == 2 * ID_SIZE_BYTES
      pad == Max({0, width - Len(sign) - Len(digits)})
  IN sign \o Repeat(Ord0, pad) \o [i \in 1..Len(digits) |-> LowerHexChar(digits[i])]

\* binascii.unhexlify on a string of [0-9A-F]: TypeError on an odd length
Unhexlify(s) ==
  IF Len(s) % 2 # 0 THEN [exc |-> "TypeError", v |-> <<>>]
  ELSE [exc |-> "none",
        v |-> [i \in 1..(Len(s) \div 2) |->
                 16 * B16Val(s[2 * i - 1]) + B16Val(s[2 * i])]]

\* base64.b16decode(s, casefold): TypeError on a character outside [0-9A-F]
b16decode(s, casefold) ==
  LET t == IF casefold THEN [i \in 1..Len(s) |-> UpperChar(s[i])] ELSE s
  IN IF \E i \in 1..Len(t) : ~IsB16Char(t[i])
     THEN [exc |-> "TypeError", v |-> <<>>]
     ELSE Unhexlify(t)

\* base64.b16encode(s): two upper-case digits per byte
b16encode(s) ==
  [i \in 1..(2 * Len(s)) |->
     IF i % 2 = 1 THEN UpperHexChar(s[(i + 1) \div 2] \div 16)
     ELSE UpperHexChar(s[i \div 2] % 16)]

\* int(s, 16) on a string of hex digits of either case
IntBase16(s) ==
  [neg |-> FALSE, mag |-> StripZeros([i \in 1..Len(s) |-> HexVal(s[i])])]

_bin_to_hex(bin_str) == b16encode(bin_str)

\* any exception of b16decode becomes IdError
_hex_to_bin(hex_str) ==
  LET r == b16decode(hex_str, TRUE)
  IN IF r.exc # "none" THEN [exc |-> "IdError", v |-> <<>>] ELSE r

\* ------------------------------------------------------------ class Id
NoId == [_bin_id |-> NoStr, _bin |-> NoStr, _hex |-> NoStr, _int |-> NoInt]

\* constructor arguments: a str, an int, or a value of another type
StrArg(s) == [type |-> "str", s |-> s, n |-> BigZero]

IntArg(n) == [type |-> "int", s |-> <<>>, n |-> n]

OtherArg == [type |-> "other", s |-> <<>>, n |-> BigZero]

Raised(e) == [exc |-> e, obj |-> NoId]

\* line 97-99: the final check of __init__ and the assignment of _bin
IdFinish(o) ==
  IF ~TruthyStr(o._bin_id) THEN Raised("IdError")
  ELSE [exc |-> "none", obj |-> [o EXCEPT !._bin = o._bin_id]]

\* line 93-96: the integer path
IdFromInt(n) ==
  LET hex == Format040x(n)
      dec == b16decode(hex, FALSE)
  IN IF dec.exc # "none" THEN Raised(dec.exc)
     ELSE IdFinish([NoId EXCEPT !._int = SomeInt(n), !._hex = SomeStr(hex),
                                !._bin_id = SomeStr(dec.v)])

\* line 87-92: the str path, by length
IdFromStr(s) ==
  IF Len(s) = ID_SIZE_BYTES
  THEN IdFinish([NoId EXCEPT !._bin_id = SomeStr(s)])
  ELSE IF Len(s) = ID_SIZE_BYTES * 2
  THEN LET dec == _hex_to_bin(s)
       IN IF dec.exc # "none" THEN Raised(dec.exc)
          ELSE IdFinish([NoId EXCEPT !._hex = SomeStr(s), !._bin_id = SomeStr(dec.v)])
  ELSE IdFinish(NoId)

\* Id(hex_or_bin_id): the outcome [exc, obj] of the constructor
IdNew(x) ==
  IF x.type = "str" THEN IdFromStr(x.s)
  ELSE IF x.type = "int" THEN IdFromInt(x.n)
  ELSE IdFinish(NoId)

\* the bin_id and bin properties
bin_id(o) == o._bin.v

\* the hex property: [obj, val, hit]; hit says the cached value was returned
hex(o) ==
  IF ~TruthyStr(o._hex)
  THEN LET h == _bin_to_hex(o._bin.v)
       IN [obj |-> [o EXCEPT !._hex = SomeStr(h)], val |-> h, hit |-> FALSE]
  ELSE [obj |-> o, val |-> o._hex.v, hit |-> TRUE]

\* the int property: [obj, val, hit]
int(o) ==
  IF ~TruthyInt(o._int)
  THEN LET h == hex(o)
           n == IntBase16(h.val)
       IN [obj |-> [h.obj EXCEPT !._int = SomeInt(n)], val |-> n, hit |-> FALSE]
  ELSE [obj |-> o, val |-> o._int.v, hit |-> TRUE]

\* __eq__
IdEq(a, b) == bin_id(a) = bin_id(b)

\* _first_different_byte(str1, str2): the 0-based position of the first
\* different byte; IndexError when str2 ends first or no byte differs
RECURSIVE ByteScan(_, _, _)
ByteScan(str1, str2, i) ==
  IF i >= Len(str1) THEN [exc |-> "IndexError", v |-> 0]
  ELSE IF i >= Len(str2) THEN [exc |-> "IndexError", v |-> 0]
  ELSE IF str1[i + 1] # str2[i + 1] THEN [exc |-> "none", v |-> i]
  ELSE ByteScan(str1, str2, i + 1)

_first_different_byte(str1, str2) == ByteScan(str1, str2, 0)

\* the while loop of _first_different_bit: shift left until bit 7 is set
RECURSIVE ShiftScan(_, _)
ShiftScan(byte, i) ==
  IF byte \div Pow(2, BITS_PER_BYTE - 1) = 0 THEN ShiftScan(byte * 2, i + 1) ELSE i

\* _first_different_bit with the counter started at 1 instead of 0
_first_different_bit_from1(byte1, byte2) == ShiftScan(BitXor(byte1, byte2), 1)

\* _first_different_bit(byte1, byte2), called with byte1 # byte2
_first_different_bit(byte1, byte2) == ShiftScan(BitXor(byte1, byte2), 0)

\* Id.log_distance(self, other)
log_distance(a, b) ==
  LET r == _first_different_byte(bin_id(a), bin_id(b))
  IN IF r.exc = "IndexError" THEN -1
     ELSE LET byte_i == r.v
              unmatching_bytes == ID_SIZE_BYTES - byte_i - 1
              byte1 == bin_id(a)[byte_i + 1]
              byte2 == bin_id(b)[byte_i + 1]
              bit_i == _first_different_bit(byte1, byte2)
              unmatching_bits == BITS_PER_BYTE - bit_i - 1
          IN unmatching_bytes * BITS_PER_BYTE + unmatching_bits

\* Id.distance(self, other): Id(self.int ^ other.int); the int properties fill
\* the caches of both objects. [exc, obj, a, b]
distance(a, b) ==
  LET ia == int(a)
      ib == int(b)
      r == IdNew(IntArg(BigXor(ia.val, ib.val)))
  IN [exc |-> r.exc, obj |-> r.obj, a |-> ia.obj, b |-> ib.obj]

\* id_list[:] with the slice forgotten: the list that was passed
SliceCopyRefAlias(ref) == ref

\* the list object id_list[:] evaluates to: a new list, never the sliced one
SliceCopyRef(ref) == "copy"

\* the inner loop of order_closest (line 224-227) from position j on: the
\* 0-based index of the leftmost lowest distance, -1 for None
RECURSIVE LowestFrom(_, _, _, _, _)
LowestFrom(dl, n, j, lowest_index, lowest_distance) ==
  IF j >= n THEN lowest_index
  ELSE IF dl[j + 1] < lowest_distance
       THEN LowestFrom(dl, n, j + 1, j, dl[j + 1])
       ELSE LowestFrom(dl, n, j + 1, lowest_index, lowest_distance)

\* the inner loop with <= for <: the rightmost lowest distance
RECURSIVE LowestFromLeq(_, _, _, _, _)
LowestFromLeq(dl, n, j, lowest_index, lowest_distance) ==
  IF j >= n THEN lowest_index
  ELSE IF dl[j + 1] <= lowest_distance
       THEN LowestFromLeq(dl, n, j + 1, j, dl[j + 1])
       ELSE LowestFromLeq(dl, n, j + 1, lowest_index, lowest_distance)

LowestIndexLeq(dl, n) == LowestFromLeq(dl, n, 0, -1, ID_SIZE_BITS + 1)

\* line 222-227: lowest_index after the inner loop over range(n)
LowestIndex(dl, n) == LowestFrom(dl, n, 0, -1, ID_SIZE_BITS + 1)

\* s[i] and s[:i] for a Python index that may be negative
PyAt(s, i) == IF i < 0 THEN s[Len(s) + i + 1] ELSE s[i + 1]

PyPrefix(s, i) == IF i < 0 THEN Slice(s, 1, Len(s) + i) ELSE Slice(s, 1, i)

\* bit i of the integer r
BitOf(r, i) == (r \div Pow(2, i)) % 2

\* line 243-247: bits 0..bit_num-1 of int_byte replaced by the drawn bits; the
\* draw of random.randint(0, 1) for bit i is bit i of r
RECURSIVE RandomizeLow(_, _, _, _)
RandomizeLow(int_byte, i, bit_num, r) ==
  IF i >= bit_num THEN int_byte
  ELSE RandomizeLow(BitAnd(int_byte, 255 - Pow(2, i)) + (BitOf(r, i) * Pow(2, i)),
                    i + 1, bit_num, r)

\* the new byte without the flip of line 242
NewByteNoFlip(int_byte, bit_num, r) == RandomizeLow(int_byte, 0, bit_num, r)

\* line 242-247: the bit bit_num flipped, the lower bits random
NewByte(int_byte, bit_num, r) ==
  RandomizeLow(BitXor(int_byte, Pow(2, bit_num)), 0, bit_num, r)

\* the assertion with <= for <
TargetAcceptedLeq(ld) == ld <= ID_SIZE_BITS

\* line 234: the assertion of generate_close_id
TargetAccepted(ld) == ld < ID_SIZE_BITS

\* Id.generate_close_id(self, log_distance); r holds the drawn bits and
\* end_bytes[j] is the j-th drawn byte. [exc, obj]
generate_close_id(o, ld, r, end_bytes) ==
  IF ~TargetAccepted(ld) THEN Raised("AssertionError")
  ELSE IF ld < 0 THEN [exc |-> "none", obj |-> o]
  ELSE LET byte_num == ld \div BITS_PER_BYTE
           bit_num == ld % BITS_PER_BYTE
           byte_index == Len(bin_id(o)) - byte_num - 1
           int_byte == NewByte(PyAt(bin_id(o), byte_index), bit_num, r)
           n == Max({0, ID_SIZE_BYTES - (byte_index + 1)})
       IN IdNew(StrArg(PyPrefix(bin_id(o), byte_index) \o <<int_byte>>
                         \o Slice(end_bytes, 1, n)))

\* ------------------------------------------------------------ state
VARIABLES
  pc,      \* where the calling program is: "start", "built", "raised", "done", ...
  arg,     \* the argument of the call under way (constructor input, target, ...)
  self,    \* the Id object the calls are made on
  other,   \* the second Id object of a binary operation
  ret,     \* the outcome of the last call: [op, exc, val, had, hit]
  calls,   \* the number of calls made so far
  hist,    \* the bytes at construction and the first value each accessor returned
  heap,    \* the list objects of order_closest, by reference
  frame    \* the local variables of order_closest

vars == <<pc, arg, self, other, ret, calls, hist, heap, frame>>

NoRet == [op |-> "none", exc |-> "none", val |-> <<>>, had |-> FALSE, hit |-> FALSE]

NoHist == [built |-> NoStr, bin |-> NoStr, hex |-> NoStr, int |-> NoInt]

NoHeap == [L |-> <<>>, copy |-> <<>>]

NoFrame == [id_list |-> "L", id_list_copy |-> "L", log_distance_list |-> <<>>,
            result |-> <<>>, i |-> 0, n |-> 0]

\* ------------------------------------------------------------ inputs
\* a pool of 20-byte values: seed 0 is the all-zero identifier
SeedId(k) == [i \in 1..ID_SIZE_BYTES |-> (k * (37 + 11 * i)) % 256]

IdPool ==
  {SeedId(k) : k \in 0..MaxSeed} \cup {Repeat(255, ID_SIZE_BYTES), Repeat(18, ID_SIZE_BYTES)}

LowerHexOf(b) == LET h == b16encode(b) IN [i \in 1..Len(h) |-> IF h[i] >= 65 THEN h[i] + 32 ELSE h[i]]

\* strings: raw buffers of 0, 19, 20 and 21 bytes; hex strings of 39, 40, 41 and 42
\* characters in either case; 40-character strings with a 'g' (103) in them
StrInputs ==
  UNION { { b, Slice(b, 1, ID_SIZE_BYTES - 1), b \o <<0>>, <<>>,
            b16encode(b), LowerHexOf(b),
            Slice(b16encode(b), 1, 2 * ID_SIZE_BYTES - 1), b16encode(b) \o <<48>>,
            b16encode(b \o <<0>>),
            [b16encode(b) EXCEPT ![1] = 103], [LowerHexOf(b) EXCEPT ![2 * ID_SIZE_BYTES] = 103] }
          : b \in IdPool }

\* integers: small ones, negative ones, one hex digit d at any position up to
\* MaxExtraDigits past the 40th, and the integer values of the pool
IntInputs ==
  {BigOfNat(n) : n \in 0..MaxSmallInt} \cup {BigNeg(n) : n \in 1..MaxNegInt}
  \cup {BigShifted(d, p) : d \in 1..15, p \in 0..(2 * ID_SIZE_BYTES - 1 + MaxExtraDigits)}
  \cup {IntBase16(b16encode(b)) : b \in IdPool}

CtorInputs ==
  {StrArg(s) : s \in StrInputs} \cup {IntArg(n) : n \in IntInputs} \cup {OtherArg}

\* ------------------------------------------------------------ construction and accessors
Init ==
  /\ pc = "start"
  /\ arg \in CtorInputs
  /\ self = NoId
  /\ other = NoId
  /\ ret = NoRet
  /\ calls = 0
  /\ hist = NoHist
  /\ heap = NoHeap
  /\ frame = NoFrame

\* self = Id(arg)
Construct ==
  /\ pc = "start"
  /\ LET r == IdNew(arg)
     IN /\ self' = r.obj
        /\ pc' = IF r.exc = "none" THEN "built" ELSE "raised"
        /\ ret' = [NoRet EXCEPT !.op = "Id", !.exc = r.exc]
        /\ hist' = [hist EXCEPT !.built = r.obj._bin_id]
  /\ UNCHANGED <<arg, other, calls, heap, frame>>

\* self.bin
GetBin ==
  /\ pc = "built"
  /\ calls < MaxCalls
  /\ ret' = [NoRet EXCEPT !.op = "bin", !.val = self._bin.v, !.had = TRUE, !.hit = TRUE]
  /\ hist' = IF hist.bin.set THEN hist ELSE [hist EXCEPT !.bin = SomeStr(self._bin.v)]
  /\ calls' = calls + 1
  /\ UNCHANGED <<pc, arg, self, other, heap, frame>>

\* self.hex
GetHex ==
  /\ pc = "built"
  /\ calls < MaxCalls
  /\ LET r == hex(self)
     IN /\ self' = r.obj
        /\ ret' = [NoRet EXCEPT !.op = "hex", !.val = r.val, !.had = self._hex.set,
                                !.hit = r.hit]
        /\ hist' = IF hist.hex.set THEN hist ELSE [hist EXCEPT !.hex = SomeStr(r.val)]
  /\ calls' = calls + 1
  /\ UNCHANGED <<pc, arg, other, heap, frame>>

\* self.int
GetInt ==
  /\ pc = "built"
  /\ calls < MaxCalls
  /\ LET r == int(self)
     IN /\ self' = r.obj
        /\ ret' = [NoRet EXCEPT !.op = "int", !.val = r.val, !.had = self._int.set,
                                !.hit = r.hit]
        /\ hist' = IF hist.int.set THEN hist ELSE [hist EXCEPT !.int = SomeInt(r.val)]
  /\ calls' = calls + 1
  /\ UNCHANGED <<pc, arg, other, heap, frame>>

Next == Construct \/ GetBin \/ GetHex \/ GetInt

Spec == Init /\ [][Next]_vars

\* ------------------------------------------------------------ operations on two identifiers
\* bytes p.. of a 20-byte value changed: byte p (1-based) xored with v, the later
\* bytes with t
XorFrom(a, p, v, t) ==
  [i \in 1..Len(a) |-> IF i < p THEN a[i] ELSE IF i = p THEN BitXor(a[i], v) ELSE BitXor(a[i], t)]

FromBytes(b) == IdNew(StrArg(b)).obj

\* bytes xored into the first different byte when the tail varies too, and the
\* bytes xored into the tail
ProbeBytes == {1, 2, 5, 8, 16, 44, 64, 128, 255}

TailBytes == {1, 90, 255}

\* a value as an integer: its hex digits, most significant first
BigOfBytes(b) ==
  [neg |-> FALSE,
   mag |-> StripZeros([i \in 1..(2 * Len(b)) |->
                         IF i % 2 = 1 THEN b[(i + 1) \div 2] \div 16 ELSE b[i \div 2] % 16])]

\* the inputs that denote the value b on each construction path
PathInputs(b) ==
  {StrArg(b), StrArg(b16encode(b)), StrArg(LowerHexOf(b)), IntArg(BigOfBytes(b))}

PathPool ==
  {SeedId(0), SeedId(1), Repeat(18, ID_SIZE_BYTES), Repeat(171, ID_SIZE_BYTES),
   Repeat(0, ID_SIZE_BYTES - 1) \o <<9>>, Repeat(0, ID_SIZE_BYTES - 1) \o <<10>>,
   <<16>> \o Repeat(0, ID_SIZE_BYTES)}

\* the objects the constructor returns for the pool, fresh or after their int
\* property was read
PathObjects ==
  LET fresh == {IdNew(x).obj : x \in {y \in UNION {PathInputs(b) : b \in PathPool} :
                                        IdNew(y).exc = "none"}}
  IN fresh \cup {int(o).obj : o \in fresh}

InitPair ==
  /\ pc = "built"
  /\ arg = OtherArg
  /\ \/ \E k \in 0..MaxSeed :
            self = FromBytes(SeedId(k)) /\ other = FromBytes(SeedId(k))
     \/ \E k \in 0..MaxSeed, p \in 1..ID_SIZE_BYTES, v \in 1..255 :
            self = FromBytes(SeedId(k)) /\ other = FromBytes(XorFrom(SeedId(k), p, v, 0))
     \/ \E k \in 0..MaxSeed, p \in 1..ID_SIZE_BYTES, v \in ProbeBytes, t \in TailBytes :
            self = FromBytes(SeedId(k)) /\ other = FromBytes(XorFrom(SeedId(k), p, v, t))
     \/ \E a \in PathObjects, b \in PathObjects : self = a /\ other = b
  /\ ret = NoRet
  /\ calls = 0
  /\ hist = NoHist
  /\ heap = NoHeap
  /\ frame = NoFrame

\* self.hex, other.hex, self.int, other.int
CompareForms ==
  /\ pc = "built"
  /\ LET ha == hex(self)
         hb == hex(other)
         ia == int(ha.obj)
         ib == int(hb.obj)
     IN /\ self' = ia.obj
        /\ other' = ib.obj
        /\ ret' = [NoRet EXCEPT !.op = "forms",
                     !.val = [hex_a |-> ha.val, hex_b |-> hb.val,
                              int_a |-> ia.val, int_b |-> ib.val]]
  /\ pc' = "done"
  /\ UNCHANGED <<arg, calls, hist, heap, frame>>

\* self.distance(other)
Distance ==
  /\ pc = "built"
  /\ LET r == distance(self, other)
     IN /\ self' = r.a
        /\ other' = r.b
        /\ ret' = [NoRet EXCEPT !.op = "distance", !.exc = r.exc, !.val = r.obj]
  /\ pc' = "done"
  /\ UNCHANGED <<arg, calls, hist, heap, frame>>

\* self.log_distance(other)
LogDistance ==
  /\ pc = "built"
  /\ ret' = [NoRet EXCEPT !.op = "log_distance", !.val = log_distance(self, other)]
  /\ pc' = "done"
  /\ UNCHANGED <<arg, self, other, calls, hist, heap, frame>>

NextPair == CompareForms \/ Distance \/ LogDistance

SpecPair == InitPair /\ [][NextPair]_vars

\* both objects hold a canonical form of exactly 20 bytes
BothIdentifiers == Len(bin_id(self)) = ID_SIZE_BYTES /\ Len(bin_id(other)) = ID_SIZE_BYTES

\* the XOR of the two values read as big-endian integers
XorAsInteger == BigXor(BigOfBytes(bin_id(self)), BigOfBytes(bin_id(other)))

\* C1: log_distance returns -1 exactly when the two identifiers have equal
\* bytes, and otherwise the n in 0..159 with 2^n <= XOR < 2^(n+1), the XOR read
\* as a big-endian integer.
C1_LogDistanceIsFloorLog2 ==
  (ret.op = "log_distance" /\ BothIdentifiers) =>
    /\ ret.val = -1 <=> bin_id(self) = bin_id(other)
    /\ ret.val # -1 =>
         /\ ret.val \in 0..(ID_SIZE_BITS - 1)
         /\ BigLeq(BigPow2(ret.val), XorAsInteger)
         /\ BigLess(XorAsInteger, BigPow2(ret.val + 1))

\* a log distance in the middle of the range, between two non-zero identifiers
\* whose tails differ too
C1_Witness ==
  /\ ret.op = "log_distance"
  /\ ret.val = 77
  /\ bin_id(self) # Repeat(0, ID_SIZE_BYTES)
  /\ bin_id(self)[ID_SIZE_BYTES] # bin_id(other)[ID_SIZE_BYTES]

\* the byte-by-byte XOR of two 20-byte values
XorBytes(x, y) == [i \in 1..ID_SIZE_BYTES |-> BitXor(x[i], y[i])]

\* C6: distance(a, b) returns an identifier whose bytes are the byte-by-byte XOR
\* of a's and b's; so distance(b, a) is the same identifier, and the result is
\* the all-zero identifier iff a == b.
C6_DistanceIsBytewiseXor ==
  (ret.op = "distance" /\ BothIdentifiers) =>
    /\ ret.exc = "none"
    /\ bin_id(ret.val) = XorBytes(bin_id(self), bin_id(other))
    /\ distance(other, self).exc = "none"
    /\ IdEq(distance(other, self).obj, ret.val)
    /\ bin_id(ret.val) = Repeat(0, ID_SIZE_BYTES) <=> IdEq(self, other)

\* C7: two equal identifiers give identical hex strings and identical integers,
\* whatever construction path made each of them.
C7_EqualIdsHaveEqualForms ==
  (ret.op = "forms" /\ IdEq(self, other)) =>
    /\ ret.val.hex_a = ret.val.hex_b
    /\ ret.val.int_a = ret.val.int_b

\* the integer half of C7: equal identifiers give identical integers
EqualIdsHaveEqualInts ==
  (ret.op = "forms" /\ IdEq(self, other)) => ret.val.int_a = ret.val.int_b

\* distance on the pairs whose XOR has no hex digit above 9
DistanceWhenDecimalDigits ==
  (ret.op = "distance" /\ BothIdentifiers) =>
    LET x == XorAsInteger.mag
    IN (\A i \in 1..Len(x) : x[i] < 10) =>
         /\ ret.exc = "none"
         /\ bin_id(ret.val) = XorBytes(bin_id(self), bin_id(other))

\* ------------------------------------------------------------ order_closest
\* identifiers around the value s: s itself, the one at log distance 0, two at
\* log distance 1 and two at log distance 159
Neighbours(s) ==
  {s, XorFrom(s, ID_SIZE_BYTES, 1, 0), XorFrom(s, ID_SIZE_BYTES, 2, 0),
   XorFrom(s, ID_SIZE_BYTES, 3, 0), XorFrom(s, 1, 128, 0), XorFrom(s, 1, 129, 255)}

\* the lists of at most MaxListLen identifiers around s, duplicates included
ListsAround(s) ==
  UNION {[1..n -> {FromBytes(b) : b \in Neighbours(s)}] : n \in 0..MaxListLen}

InitOrder ==
  /\ pc = "built"
  /\ \E k \in 0..MaxSeed :
       /\ self = FromBytes(SeedId(k))
       /\ arg \in ListsAround(SeedId(k))
  /\ other = NoId
  /\ ret = NoRet
  /\ calls = 0
  /\ hist = NoHist
  /\ heap = [NoHeap EXCEPT !.L = arg]
  /\ frame = NoFrame

\* line 214-220: the call self.order_closest(L) up to the loop
OrderBegin ==
  /\ pc = "built"
  /\ LET c == SliceCopyRef("L")
     IN /\ heap' = [heap EXCEPT ![c] = heap["L"]]
        /\ frame' = [id_list |-> "L", id_list_copy |-> c,
                     log_distance_list |->
                       [j \in 1..Len(heap["L"]) |-> log_distance(self, heap["L"][j])],
                     result |-> <<>>, i |-> 0, n |-> Len(heap["L"])]
  /\ pc' = "loop"
  /\ UNCHANGED <<arg, self, other, ret, calls, hist>>

\* line 221-230: one round of the outer loop; indexing with None is a TypeError
OrderSelect ==
  /\ pc = "loop"
  /\ frame.i < frame.n
  /\ LET c == frame.id_list_copy
         lowest_index == LowestIndex(frame.log_distance_list, Len(heap[c]))
     IN IF lowest_index < 0
        THEN /\ pc' = "raised"
             /\ ret' = [NoRet EXCEPT !.op = "order_closest", !.exc = "TypeError"]
             /\ UNCHANGED <<heap, frame>>
        ELSE /\ frame' = [frame EXCEPT
                            !.result = Append(@, heap[c][lowest_index + 1]),
                            !.log_distance_list = DelAt(@, lowest_index + 1),
                            !.i = @ + 1]
             /\ heap' = [heap EXCEPT ![c] = DelAt(@, lowest_index + 1)]
             /\ UNCHANGED <<pc, ret>>
  /\ UNCHANGED <<arg, self, other, calls, hist>>

\* line 231: return result
OrderReturn ==
  /\ pc = "loop"
  /\ frame.i = frame.n
  /\ ret' = [NoRet EXCEPT !.op = "order_closest", !.val = frame.result]
  /\ pc' = "done"
  /\ UNCHANGED <<arg, self, other, calls, hist, heap, frame>>

NextOrder == OrderBegin \/ OrderSelect \/ OrderReturn

SpecOrder == InitOrder /\ [][NextOrder]_vars

\* the elements of l whose log distance to self is k, in l's order
RECURSIVE WithKey(_, _)
WithKey(l, k) ==
  IF l = <<>> THEN <<>>
  ELSE IF log_distance(self, Head(l)) = k THEN <<Head(l)>> \o WithKey(Tail(l), k)
  ELSE WithKey(Tail(l), k)

\* the stable sort of l by log distance to self: for each distance of keys,
\* from the lowest up, the elements at that distance in l's order
RECURSIVE StableOver(_, _)
StableOver(l, keys) ==
  IF keys = {} THEN <<>>
  ELSE LET k == CHOOSE x \in keys : \A y \in keys : x <= y
       IN WithKey(l, k) \o StableOver(l, keys \ {k})

StableSorted(l) == StableOver(l, {log_distance(self, l[j]) : j \in 1..Len(l)})

\* C3: order_closest(r, L) is a permutation of L, non-decreasing in log distance
\* to r, with elements of equal log distance in L's order: the stable sort of L
\* by log distance.
C3_OrderClosestIsStableSort ==
  (pc = "done" /\ ret.op = "order_closest") =>
    /\ ret.exc = "none"
    /\ Len(ret.val) = Len(arg)
    /\ \A i \in 1..(Len(ret.val) - 1) :
         log_distance(self, ret.val[i]) <= log_distance(self, ret.val[i + 1])
    /\ ret.val = StableSorted(arg)

\* a list of three with a tie that is not in order: the farthest first, then
\* two different identifiers at log distance 1
C3_Witness ==
  /\ pc = "done"
  /\ ret.op = "order_closest"
  /\ Len(arg) = 3
  /\ log_distance(self, arg[1]) = ID_SIZE_BITS - 1
  /\ log_distance(self, arg[2]) = 1
  /\ log_distance(self, arg[3]) = 1
  /\ arg[2] # arg[3]
  /\ ret.val = <<arg[2], arg[3], arg[1]>>

\* C10: after order_closest(r, L) returns, the caller's list L holds the same
\* elements in the same order as before the call.
C10_OrderClosestKeepsItsArgument ==
  pc \in {"loop", "done", "raised"} => heap["L"] = arg

\* a call that returned a reordering of a list of three, the private copy
\* emptied by the deletions
C10_Witness ==
  /\ pc = "done"
  /\ ret.op = "order_closest"
  /\ Len(arg) = 3
  /\ ret.val # arg
  /\ heap["copy"] = <<>>

\* ------------------------------------------------------------ generate_close_id
\* the draws of the ending bytes: all zero, all 255, a mixed sequence, and the
\* bytes self ends with from each position on
EndByteDraws(s) ==
  {Repeat(0, ID_SIZE_BYTES), Repeat(255, ID_SIZE_BYTES),
   [j \in 1..ID_SIZE_BYTES |-> (j * 97) % 256]}
  \cup {Slice(s, p, ID_SIZE_BYTES) \o Repeat(0, p - 1) : p \in 1..ID_SIZE_BYTES}

InitGen ==
  /\ pc = "built"
  /\ \E k \in 0..MaxSeed : self = FromBytes(SeedId(k))
  /\ arg \in (0 - MaxUnder)..(ID_SIZE_BITS + MaxOver - 1)
  /\ other = NoId
  /\ ret = NoRet
  /\ calls = 0
  /\ hist = NoHist
  /\ heap = NoHeap
  /\ frame = NoFrame

\* self.generate_close_id(arg), for every outcome of the draws
GenerateCloseId ==
  /\ pc = "built"
  /\ \E r \in 0..(Pow(2, IF arg \in 0..(ID_SIZE_BITS - 1) THEN arg % BITS_PER_BYTE ELSE 0) - 1),
        end_bytes \in EndByteDraws(bin_id(self)) :
       LET g == generate_close_id(self, arg, r, end_bytes)
       IN ret' = [NoRet EXCEPT !.op = "generate_close_id", !.exc = g.exc, !.val = g.obj]
  /\ pc' = "done"
  /\ UNCHANGED <<arg, self, other, calls, hist, heap, frame>>

NextGen == GenerateCloseId

SpecGen == InitGen /\ [][NextGen]_vars

\* C2: for every target d with 0 <= d < 160 and every outcome of the draws,
\* generate_close_id(self, d) returns an identifier of exactly 20 bytes whose
\* log distance to self is exactly d.
C2_GeneratedIdIsAtTargetDistance ==
  (ret.op = "generate_close_id" /\ arg \in 0..(ID_SIZE_BITS - 1)) =>
    /\ ret.exc = "none"
    /\ Len(bin_id(ret.val)) = ID_SIZE_BYTES
    /\ log_distance(self, ret.val) = arg

\* a target in the middle of a byte, the ending bytes not those of self
C2_Witness ==
  /\ ret.op = "generate_close_id"
  /\ arg = 77
  /\ ret.exc = "none"
  /\ bin_id(ret.val)[ID_SIZE_BYTES] # bin_id(self)[ID_SIZE_BYTES]
  /\ bin_id(self) # Repeat(0, ID_SIZE_BYTES)

\* C8 as stated: a target >= 160 or < -1 fails with an assertion failure and
\* returns no identifier, and the target -1 returns self.
C8_TargetOutsideRangeAsserts ==
  ret.op = "generate_close_id" =>
    /\ (arg >= ID_SIZE_BITS \/ arg < -1) => (ret.exc = "AssertionError" /\ ret.val = NoId)
    /\ arg = -1 => (ret.exc = "none" /\ ret.val = self)

\* C8 as the code has it: a target >= 160 fails with an assertion failure and
\* returns no identifier, and every negative target, -1 and below, returns self.
C8_TargetAboveRangeAsserts ==
  ret.op = "generate_close_id" =>
    /\ arg >= ID_SIZE_BITS => (ret.exc = "AssertionError" /\ ret.val = NoId)
    /\ arg < 0 => (ret.exc = "none" /\ ret.val = self)

\* a call with a target below -1 that returned self
C8_Witness ==
  /\ ret.op = "generate_close_id"
  /\ arg < -1
  /\ ret.exc = "none"
  /\ ret.val = self

\* ------------------------------------------------------------ claims on construction
\* n is an integer with 0 <= n < 2^160
InRange(n) == ~n.neg /\ Len(n.mag) <= 2 * ID_SIZE_BYTES

\* the 20-byte big-endian zero-padded encoding of an integer in range
BigEndianBytes(n) ==
  LET d == Repeat(0, 2 * ID_SIZE_BYTES - Len(n.mag)) \o n.mag
  IN [i \in 1..ID_SIZE_BYTES |-> 16 * d[2 * i - 1] + d[2 * i]]

\* C4: for every integer n with 0 <= n < 2^160 the construction from n succeeds,
\* the canonical bytes are the 20-byte big-endian encoding of n, and the integer
\* accessor returns n.
C4_IntegerRoundTrip ==
  (arg.type = "int" /\ InRange(arg.n) /\ pc # "start") =>
    /\ pc = "built"
    /\ self._bin.v = BigEndianBytes(arg.n)
    /\ (ret.op = "int" => ret.val = arg.n)

\* a raw 20-byte buffer, a 40-character hex string, or an integer in [0, 2^160)
ValidCtorInput(x) ==
  \/ x.type = "str" /\ Len(x.s) = ID_SIZE_BYTES
  \/ x.type = "str" /\ Len(x.s) = 2 * ID_SIZE_BYTES /\ \A i \in 1..Len(x.s) : IsHexChar(x.s[i])
  \/ x.type = "int" /\ InRange(x.n)

\* C5: every input that is not a 20-byte buffer, a 40-character hex string or an
\* integer in [0, 2^160) makes the constructor raise IdError, and no identifier
\* whose canonical form is not exactly 20 bytes is ever produced.
C5_FailsClosedWithIdError ==
  pc # "start" =>
    /\ ~ValidCtorInput(arg) => (pc = "raised" /\ ret.exc = "IdError")
    /\ pc = "built" => Len(self._bin.v) = ID_SIZE_BYTES

\* C9: every accessor returns on every call the value it returned first, the
\* canonical bytes never change, and a slot that holds a computed value (zero
\* included) is never computed again.
C9_CachingNeverObservable ==
  pc = "built" =>
    /\ self._bin = hist.built /\ self._bin_id = hist.built
    /\ ret.op = "bin" => ret.val = hist.bin.v
    /\ ret.op = "hex" => ret.val = hist.hex.v
    /\ ret.op = "int" => ret.val = hist.int.v
    /\ (ret.op \in {"hex", "int"} /\ ret.had) => ret.hit

\* the part of C9 a caller can observe: repeated calls return the same values
\* and the canonical bytes never change
AccessorsStable ==
  pc = "built" =>
    /\ self._bin = hist.built /\ self._bin_id = hist.built
    /\ ret.op = "bin" => ret.val = hist.bin.v
    /\ ret.op = "hex" => ret.val = hist.hex.v
    /\ ret.op = "int" => ret.val = hist.int.v

====
